---- MODULE Spec2Model ----
(***************************************************************************)
(* scripts/create-adaptive-bg.py: create a solid colour square bitmap with *)
(* PIL and save it as a PNG file.                                          *)
(*                                                                         *)
(* The state is the state of one Python process running the script (Spec)  *)
(* or of a caller invoking create_solid_color_image directly (SpecCall),   *)
(* together with the part of the world the script touches: the file        *)
(* system, the standard streams and the exit status.                       *)
(***************************************************************************)
EXTENDS Integers, Sequences, FiniteSets, TLC

(***************************************************************************)
(* Bounds of the model.                                                    *)
(***************************************************************************)
\* Edge length passed by __main__.  Line 30 sets size = 1024; the grid is
\* scaled down so that every pixel of the bitmap can be enumerated.
MainSize == 2
\* Largest edge length of a direct call of create_solid_color_image.
MaxSize == 2
\* Number of invocations in a row of create_solid_color_image (SpecCall).
MaxCalls == 2

VARIABLES
    pc,           \* position of the process: a line of the script
    env,          \* the environment of the run: [pil, fault, strict]
    argv,         \* sys.argv
    size,         \* parameter size (0: not bound yet)
    color,        \* parameter color (<<>>: not bound yet)
    output_path,  \* parameter output_path ("": not bound yet)
    img,          \* local img of create_solid_color_image
    fs,           \* the file system: [files, dirs]
    fs0,          \* the file system as it was when the run started
    stdout,       \* lines written to standard output
    stderr,       \* lines written to standard error
    exc,          \* the exception being propagated or handled
    exit,         \* exit status of the process: <<>> while it runs
    calls,        \* number of times create_solid_color_image was entered
    prev          \* file left at output_path by the previous successful call

vars == <<pc, env, argv, size, color, output_path, img, fs, fs0,
          stdout, stderr, exc, exit, calls, prev>>

(***************************************************************************)
(* Paths and the file system.                                              *)
(***************************************************************************)
DefaultPath == "app_icon_adaptive_bg.png"

\* "udcff.png" stands for a file name holding a byte that is no valid UTF-8
\* (sys.argv decodes it to a lone surrogate, U+DCFF).
Paths == {DefaultPath, "out.png", "sub/out.png", "udcff.png"}

Parent(p) == IF p = "sub/out.png" THEN "sub" ELSE "."

Encodable(p) == p # "udcff.png"

Absent == [exists |-> FALSE, data |-> <<>>]

File(d) == [exists |-> TRUE, data |-> d]

(***************************************************************************)
(* PIL.Image: the bitmap of Image.new and the PNG codec of Image.save.     *)
(***************************************************************************)
NoImage == [mode |-> "", size |-> <<0, 0>>, px |-> <<>>]

Coords(w, h) == (0 .. w - 1) \X (0 .. h - 1)

\* Image.new(mode, size, color): every pixel of the new bitmap is color.
Image_new(mode, sz, c) ==
    [mode |-> mode, size |-> sz, px |-> [xy \in Coords(sz[1], sz[2]) |-> c]]

RECURSIVE PixelBytes(_, _, _)
PixelBytes(im, y, x) ==
    IF x >= im.size[1] THEN <<>>
    ELSE im.px[<<x, y>>] \o PixelBytes(im, y, x + 1)

\* The PNG scanlines: each row is a filter byte (0: none) and its samples.
RECURSIVE Scanlines(_, _)
Scanlines(im, y) ==
    IF y >= im.size[2] THEN <<>>
    ELSE (<<0>> \o PixelBytes(im, y, 0)) \o Scanlines(im, y + 1)

RunLen(s) ==
    CHOOSE n \in 1 .. Len(s) :
        /\ \A i \in 1 .. n : s[i] = s[1]
        /\ n = Len(s) \/ s[n + 1] # s[1]

\* The compressed stream of IDAT, as run lengths: <<byte, count, ...>>.
RECURSIVE Deflate(_)
Deflate(s) ==
    IF s = <<>> THEN <<>>
    ELSE LET n == RunLen(s)
         IN  <<s[1], n>> \o Deflate(SubSeq(s, n + 1, Len(s)))

RECURSIVE Inflate(_)
Inflate(r) ==
    IF Len(r) < 2 THEN <<>>
    ELSE [i \in 1 .. r[2] |-> r[1]] \o Inflate(SubSeq(r, 3, Len(r)))

Chunk(t, d) == [type |-> t, data |-> d]

\* The chunks Image.save(fp, 'PNG') writes for an RGB image, in order.
PngEncode(im) ==
    << Chunk("SIG", <<>>),
       Chunk("IHDR", <<im.size[1], im.size[2], 8, 2>>),
       Chunk("IDAT", Deflate(Scanlines(im, 0))),
       Chunk("IEND", <<>>) >>

\* What a PNG reader makes of a file: the bitmap, or NoImage when the file
\* is truncated or malformed.  Data after IEND is ignored.
PngDecode(d) ==
    IF \/ Len(d) < 4
       \/ <<d[1].type, d[2].type, d[3].type, d[4].type>>
              # <<"SIG", "IHDR", "IDAT", "IEND">>
       \/ Len(d[2].data) # 4
    THEN NoImage
    ELSE LET w   == d[2].data[1]
             h   == d[2].data[2]
             raw == Inflate(d[3].data)
             row == 1 + 3 * w
         IN  IF \/ <<d[2].data[3], d[2].data[4]>> # <<8, 2>>
                \/ Len(raw) # h * row
                \/ \E y \in 0 .. h - 1 : raw[y * row + 1] # 0
             THEN NoImage
             ELSE [mode |-> "RGB", size |-> <<w, h>>,
                   px |-> [xy \in Coords(w, h) |->
                             LET b == xy[2] * row + 1 + 3 * xy[1]
                             IN  <<raw[b + 1], raw[b + 2], raw[b + 3]>>]]

Decoded(f) == IF f.exists THEN PngDecode(f.data) ELSE NoImage

(***************************************************************************)
(* The environment of a run, exceptions and output lines.                  *)
(***************************************************************************)
\* What goes wrong in this run, if anything:
\*   "import"      a part of the library loaded on first use is missing
\*   "memory"      the bitmap buffer cannot be allocated
\*   "permission"  the output file may not be opened for writing
\*   "disk"        a write to the opened output file fails
Faults == {"none", "import", "memory", "permission", "disk"}

\* pil: whether the package PIL can be imported; strict: whether standard
\* output refuses text it cannot encode (a lone surrogate).
Envs == [pil : {"installed", "missing"}, fault : Faults, strict : BOOLEAN]

Colors == {<<169, 182, 95>>, <<0, 0, 0>>, <<255, 0, 128>>}

Prog == "create-adaptive-bg.py"

Argvs ==
    {<<Prog>>} \cup {<<Prog, p>> : p \in Paths}
               \cup {<<Prog, p, "out.png">> : p \in Paths}

\* A file that may be there before the run: a 1x1 black PNG.
OldFile == File(PngEncode(Image_new("RGB", <<1, 1>>, <<0, 0, 0>>)))

InitialFS ==
    { [files |-> [p \in Paths |-> IF p = q /\ Parent(p) \in d
                                  THEN OldFile ELSE Absent],
       dirs  |-> d] :
      q \in Paths \cup {""}, d \in {{"."}, {".", "sub"}} }

NoExc == [cls |-> "", msg |-> ""]

Exc(cls, msg) == [cls |-> cls, msg |-> msg]

\* except ImportError catches ImportError and its subclasses.
IsImportError(e) == e.cls \in {"ImportError", "ModuleNotFoundError"}

Line(kind, p, s, c, m) ==
    [kind |-> kind, path |-> p, size |-> s, color |-> c, msg |-> m]

\* f"Created {output_path} ({size}x{size}) with color {color}"
CreatedLine(p, s, c) == Line("Created", p, <<s, s>>, c, "")

\* The message left out of the line.
ErrorLine_NoMessage(m) == Line("Error", "", <<>>, <<>>, "")

\* f"Error: {e}"
ErrorLine(m) == Line("Error", "", <<>>, <<>>, m)

PillowRequired == "PIL (Pillow) is required. Install with: pip install Pillow"

\* The traceback the interpreter prints for an exception nobody caught.
Traceback(e) == Line("Traceback", "", <<>>, <<>>, e.cls)

(***************************************************************************)
(* __main__, lines 27-31.                                                  *)
(***************************************************************************)
\* A slip in the length test: the first argument is only used when a
\* second one follows it.
ResolvePath_OffByOne(av) == IF Len(av) > 2 THEN av[2] ELSE DefaultPath

\* output_path = sys.argv[1] if len(sys.argv) > 1 else '...' (argv is
\* indexed from 0 in the script and from 1 here).
ResolvePath(av) == IF Len(av) > 1 THEN av[2] ELSE DefaultPath

MainColor == <<169, 182, 95>>

(***************************************************************************)
(* create_solid_color_image, line 23.                                      *)
(***************************************************************************)
\* The colour argument left out: Image.new then fills with black.
NewImage_NoColor(s, c) == Image_new("RGB", <<s, s>>, <<0, 0, 0>>)

\* Image.new('RGB', (size, size), color)
NewImage(s, c) == Image_new("RGB", <<s, s>>, c)

(***************************************************************************)
(* Image.save(output_path, 'PNG'): open the file, write the chunks.        *)
(***************************************************************************)
\* The file opened for exclusive creation ("xb"): an existing file is an
\* error.
CanOpen_Exclusive(fsys, p) ==
    /\ Parent(p) \in fsys.dirs
    /\ env.fault # "permission"
    /\ ~fsys.files[p].exists

\* The missing parent directory not noticed (as if it had been created).
CanOpen_AnyParent(fsys, p) == env.fault # "permission"

CanOpen(fsys, p) == Parent(p) \in fsys.dirs /\ env.fault # "permission"

OpenError(fsys, p) ==
    IF Parent(p) \notin fsys.dirs
    THEN Exc("FileNotFoundError", "[Errno 2] No such file or directory")
    ELSE Exc("PermissionError", "[Errno 13] Permission denied")

\* A second copy written under the default name.
Written_AlsoDefault(fsys, p, d) ==
    [fsys EXCEPT !.files[p] = File(d), !.files[DefaultPath] = File(d)]

\* open(filename, "w+b") and the writes: the old content is dropped.
Written(fsys, p, d) == [fsys EXCEPT !.files[p] = File(d)]

\* A write failed after the first k chunks.  The library closes the file;
\* newer releases also remove it when this save created it (cleanup).
WriteFailed(fsys, p, d, k, cleanup) ==
    IF cleanup /\ ~fsys.files[p].exists
    THEN fsys
    ELSE [fsys EXCEPT !.files[p] = File(SubSeq(d, 1, k))]

(***************************************************************************)
(* The steps of the process.                                               *)
(***************************************************************************)
Init ==
    /\ pc = "import"
    /\ env \in Envs
    /\ argv \in Argvs
    /\ size = 0
    /\ color = <<>>
    /\ output_path = ""
    /\ img = NoImage
    /\ fs \in InitialFS
    /\ fs0 = fs
    /\ stdout = <<>>
    /\ stderr = <<>>
    /\ exc = NoExc
    /\ exit = <<>>
    /\ calls = 0
    /\ prev = [ok |-> FALSE, file |-> Absent]

\* Line 19, from PIL import Image, when the package is there.
ImportOK ==
    /\ pc = "import"
    /\ env.pil = "installed"
    /\ pc' = "main"
    /\ UNCHANGED <<env, argv, size, color, output_path, img, fs, fs0,
                   stdout, stderr, exc, exit, calls, prev>>

\* Line 19 when the package is missing: the import is outside the try
\* statement of line 33, so the interpreter prints the traceback on standard
\* error and exits with status 1.
ImportFail ==
    /\ pc = "import"
    /\ env.pil = "missing"
    /\ exc' = Exc("ModuleNotFoundError", "No module named 'PIL'")
    /\ stderr' = Append(stderr, Traceback(exc'))
    /\ exit' = <<1>>
    /\ pc' = "exited"
    /\ UNCHANGED <<env, argv, size, color, output_path, img, fs, fs0,
                   stdout, calls, prev>>

\* Lines 29-31 and the call of line 34.
Main ==
    /\ pc = "main"
    /\ color' = MainColor
    /\ size' = MainSize
    /\ output_path' = ResolvePath(argv)
    /\ calls' = calls + 1
    /\ pc' = "new"
    /\ UNCHANGED <<env, argv, img, fs, fs0, stdout, stderr, exc, exit, prev>>

\* An exception leaves create_solid_color_image: img is released.
Raise(e) ==
    /\ exc' = e
    /\ img' = NoImage
    /\ pc' = "raised"

\* Line 23: img = Image.new('RGB', (size, size), color)
New ==
    /\ pc = "new"
    /\ CASE env.fault = "import" ->
              Raise(Exc("ImportError", "cannot import name"))
         [] env.fault = "memory" ->
              Raise(Exc("MemoryError", ""))
         [] OTHER ->
              /\ img' = NewImage(size, color)
              /\ pc' = "save"
              /\ UNCHANGED exc
    /\ UNCHANGED <<env, argv, size, color, output_path, fs, fs0,
                   stdout, stderr, exit, calls, prev>>

\* Line 24: img.save(output_path, 'PNG')
Save ==
    /\ pc = "save"
    /\ LET d == PngEncode(img)
       IN  IF ~CanOpen(fs, output_path)
           THEN /\ Raise(OpenError(fs, output_path))
                /\ UNCHANGED fs
           ELSE IF env.fault = "disk"
           THEN /\ \E k \in 0 .. Len(d) - 1, cleanup \in BOOLEAN :
                       fs' = WriteFailed(fs, output_path, d, k, cleanup)
                /\ Raise(Exc("OSError", "[Errno 28] No space left on device"))
           ELSE /\ fs' = Written(fs, output_path, d)
                /\ pc' = "print"
                /\ UNCHANGED <<img, exc>>
    /\ UNCHANGED <<env, argv, size, color, output_path, fs0,
                   stdout, stderr, exit, calls, prev>>

\* Line 25: print(f"Created ..."), then the function returns.  The line is
\* encoded as a whole before any of it is written.
Report ==
    /\ pc = "print"
    /\ IF env.strict /\ ~Encodable(output_path)
       THEN /\ Raise(Exc("UnicodeEncodeError", "surrogates not allowed"))
            /\ UNCHANGED stdout
       ELSE /\ stdout' = Append(stdout, CreatedLine(output_path, size, color))
            /\ img' = NoImage
            /\ pc' = "returned"
            /\ UNCHANGED exc
    /\ UNCHANGED <<env, argv, size, color, output_path, fs, fs0,
                   stderr, exit, calls, prev>>

\* The try statement ends without an exception and so does the script.
Finish ==
    /\ pc = "returned"
    /\ exit' = <<0>>
    /\ pc' = "exited"
    /\ UNCHANGED <<env, argv, size, color, output_path, img, fs, fs0,
                   stdout, stderr, exc, calls, prev>>

\* Lines 35-37: except ImportError
ExceptImportError ==
    /\ pc = "raised"
    /\ IsImportError(exc)
    /\ stdout' = Append(stdout, ErrorLine(PillowRequired))
    /\ exit' = <<1>>
    /\ pc' = "exited"
    /\ UNCHANGED <<env, argv, size, color, output_path, img, fs, fs0,
                   stderr, exc, calls, prev>>

\* sys.exit(1) left out of the handler: the script runs to its end.
ExceptException_NoExit ==
    /\ pc = "raised"
    /\ ~IsImportError(exc)
    /\ stdout' = Append(stdout, ErrorLine(exc.msg))
    /\ exit' = <<0>>
    /\ pc' = "exited"
    /\ UNCHANGED <<env, argv, size, color, output_path, img, fs, fs0,
                   stderr, exc, calls, prev>>

\* Lines 38-40: except Exception as e
ExceptException ==
    /\ pc = "raised"
    /\ ~IsImportError(exc)
    /\ stdout' = Append(stdout, ErrorLine(exc.msg))
    /\ exit' = <<1>>
    /\ pc' = "exited"
    /\ UNCHANGED <<env, argv, size, color, output_path, img, fs, fs0,
                   stderr, exc, calls, prev>>

Next ==
    \/ ImportOK
    \/ ImportFail
    \/ Main
    \/ New
    \/ Save
    \/ Report
    \/ Finish
    \/ ExceptImportError
    \/ ExceptException

Spec == Init /\ [][Next]_vars

(***************************************************************************)
(* Direct calls of create_solid_color_image(size, color, output_path) from *)
(* a process that has imported the module.                                 *)
(***************************************************************************)
InitCall ==
    /\ pc = "new"
    /\ env \in {e \in Envs : e.pil = "installed"}
    /\ argv = <<Prog>>
    /\ size \in 1 .. MaxSize
    /\ color \in Colors
    /\ output_path \in Paths
    /\ img = NoImage
    /\ fs \in InitialFS
    /\ fs0 = fs
    /\ stdout = <<>>
    /\ stderr = <<>>
    /\ exc = NoExc
    /\ exit = <<>>
    /\ calls = 1
    /\ prev = [ok |-> FALSE, file |-> Absent]

\* The caller invokes the function again with the same arguments.
CallAgain ==
    /\ pc \in {"returned", "raised"}
    /\ calls < MaxCalls
    /\ prev' = [ok |-> pc = "returned", file |-> fs.files[output_path]]
    /\ calls' = calls + 1
    /\ exc' = NoExc
    /\ pc' = "new"
    /\ UNCHANGED <<env, argv, size, color, output_path, img, fs, fs0,
                   stdout, stderr, exit>>

NextCall ==
    \/ New
    \/ Save
    \/ Report
    \/ CallAgain

SpecCall == InitCall /\ [][NextCall]_vars

(***************************************************************************)
(* Properties.                                                             *)
(***************************************************************************)
\* The path the command line asks for.
Requested == IF Len(argv) >= 2 THEN argv[2] ELSE DefaultPath

\* The bitmap the arguments of the call describe.
Solid(f) ==
    LET d == Decoded(f)
    IN  /\ f.exists
        /\ d.mode = "RGB"
        /\ d.size = <<size, size>>
        /\ DOMAIN d.px = Coords(size, size)
        /\ \A xy \in Coords(size, size) : d.px[xy] = color

HasLine(kind) == \E i \in 1 .. Len(stdout) : stdout[i].kind = kind

\* C1: a run in which PIL cannot be imported prints the line telling the
\* user to install Pillow, exits with status 1 and writes no file.
C1_MissingCapability ==
    (pc = "exited" /\ env.pil = "missing") =>
        /\ stdout = <<[kind |-> "Error", path |-> "", size |-> <<>>,
                       color |-> <<>>, msg |-> PillowRequired]>>
        /\ exit = <<1>>
        /\ fs = fs0

\* C2: after a successful call create_solid_color_image(size, color,
\* output_path) the file at output_path decodes to a size x size RGB image
\* whose every pixel is color.
C2_SavedImageIsSolid ==
    pc = "returned" => Solid(fs.files[output_path])

C2_Witness ==
    /\ pc = "returned"
    /\ size > 1
    /\ color = <<255, 0, 128>>
    /\ fs0.files[output_path].exists
    /\ Solid(fs.files[output_path])

\* C3: when the run has ended, the file at the output path is either as it
\* was before the run (not written at all) or fully written.
C3_NoPartialFile ==
    pc = "exited" =>
        \/ output_path = "" /\ fs = fs0
        \/ output_path # "" /\ fs.files[output_path] = fs0.files[output_path]
        \/ output_path # "" /\ Solid(fs.files[output_path])

C5_ExitCodes ==
    /\ calls <= 1
    /\ pc # "exited" => exit = <<>>
    /\ pc = "exited" =>
        /\ exit \in {<<0>>, <<1>>}
        /\ exit = <<0>> <=> (calls = 1 /\ exc = NoExc)
        /\ env.pil = "missing" => exit = <<1>>
        /\ exc # NoExc => exit = <<1>>

C5_Witness ==
    /\ pc = "exited"
    /\ exit = <<1>>
    /\ exc.cls = "OSError"
    /\ calls = 1

\* C6: only the path the command line asks for is written: the default
\* name when there is no argument, else the first argument (the default
\* name is then left alone); a run that ends with status 0 has written the
\* image there.
C6_PathResolution ==
    /\ \A p \in Paths \ {Requested} : fs.files[p] = fs0.files[p]
    /\ (pc = "exited" /\ exit = <<0>>) => Solid(fs.files[Requested])

C6_Witness ==
    /\ pc = "exited"
    /\ exit = <<0>>
    /\ Len(argv) >= 2
    /\ argv[2] = "sub/out.png"
    /\ fs0.files[DefaultPath].exists
    /\ fs.files[DefaultPath] = fs0.files[DefaultPath]
    /\ Solid(fs.files["sub/out.png"])

\* C7: a run that succeeded has printed exactly one line, the Created line
\* with the path, size and colour of the image it wrote; a run that failed
\* with another exception than ImportError has printed exactly one line,
\* Error: <message of the exception>; no run prints both kinds of line.
C7_StdoutContract ==
    /\ ~(HasLine("Created") /\ HasLine("Error"))
    /\ (pc = "exited" /\ exit = <<0>>) =>
        /\ stdout = <<[kind |-> "Created", path |-> output_path,
                       size |-> <<size, size>>, color |-> color, msg |-> ""]>>
        /\ LET d == Decoded(fs.files[stdout[1].path])
           IN  /\ d.size = stdout[1].size
               /\ \A xy \in DOMAIN d.px : d.px[xy] = stdout[1].color
    /\ (pc = "exited" /\ exc # NoExc /\ ~IsImportError(exc)) =>
        stdout = <<[kind |-> "Error", path |-> "", size |-> <<>>,
                    color |-> <<>>, msg |-> exc.msg]>>

C7_Witness ==
    /\ pc = "exited"
    /\ exc.cls = "UnicodeEncodeError"
    /\ Len(stdout) = 1
    /\ stdout[1].kind = "Error"
    /\ stdout[1].msg = "surrogates not allowed"

\* C8: no run changes a file other than the one at output_path, nor the
\* set of directories; a run that succeeded has changed exactly that file.
C8_OnlyOutputPath ==
    LET changed == {p \in Paths : fs.files[p] # fs0.files[p]}
    IN  /\ fs.dirs = fs0.dirs
        /\ changed \subseteq {output_path}
        /\ (pc = "exited" /\ exit = <<0>>) => changed = {output_path}

C8_Witness ==
    /\ pc = "exited"
    /\ exit = <<0>>
    /\ \E p \in Paths \ {output_path} : fs0.files[p].exists
    /\ fs.files[output_path] # fs0.files[output_path]

\* C9: when a call succeeded and the function is called again with the same
\* arguments in the same environment, the second call succeeds too and the
\* file it leaves decodes to the same pixels as the file the first left.
C9_Idempotent ==
    (calls >= 2 /\ prev.ok /\ pc \in {"returned", "raised"}) =>
        /\ pc = "returned"
        /\ Decoded(prev.file) # NoImage
        /\ Decoded(fs.files[output_path]) = Decoded(prev.file)

C9_Witness ==
    /\ calls = 2
    /\ prev.ok
    /\ pc = "returned"
    /\ size > 1
    /\ Decoded(fs.files[output_path]) = Decoded(prev.file)

\* C10: the Created line is printed, and status 0 returned, only when the
\* complete file is at the output path; and a run that exits with status 1
\* has left the file at the output path as it was.
C10_SaveReportExit ==
    /\ (HasLine("Created") \/ exit = <<0>>) => Solid(fs.files[output_path])
    /\ exit = <<1>> =>
           \/ output_path = ""
           \/ fs.files[output_path] = fs0.files[output_path]

====
